---- MODULE Spec2Model ----
(***************************************************************************)
(* A model of the demonstration functions of cpp-notes.  The repository    *)
(* has no main(): a single thread of control calls the demonstration      *)
(* functions one after another, in any order.  The state is what C++       *)
(* keeps across calls (the static local of counter(), the format flags of  *)
(* std::cout, the buffer and the state of std::cin) and the frame of the   *)
(* function that is running, which is destroyed when it returns.           *)
(***************************************************************************)
EXTENDS Integers, Sequences, FiniteSets, TLC

VARIABLES
    pc,        \* position of the single thread of control ("idle": in main, between calls)
    loc,       \* the automatic variables of the running function (its frame)
    out,       \* what the running call has written to std::cout so far
    coutHex,   \* std::cout's basefield: TRUE after std::hex, FALSE for decimal
    cinBuf,    \* std::cin's input buffer, a sequence of characters
    cinFail,   \* std::cin's failbit
    input,     \* the input offered to the running call: the buffer it found, then each line typed
    s_count,   \* the static local of counter()
    globals    \* the globals g_init_x and g_init_y, and how the build initializes g_init_y

vars == <<pc, loc, out, coutHex, cinBuf, cinFail, input, s_count, globals>>

-----------------------------------------------------------------------------
(* Bounds of the model.                                                    *)

\* counter() is called at most this many times (it caps s_count)
MaxCalls == 6
\* a Counter is incremented at most this many times in one use
MaxIncr == 3

-----------------------------------------------------------------------------
(* Fixed-width values.  An unsigned value of w bits is a function from the  *)
(* bit positions 0..w-1 (0 the least significant) to BOOLEAN, as in         *)
(* std::bitset<w> and std::uint32_t.                                        *)

RECURSIVE Pow2(_)
Pow2(n) == IF n = 0 THEN 1 ELSE 2 * Pow2(n - 1)

\* the value of the low 8 bits of b starting at bit `from` (at most 8 bits fit an int here)
RECURSIVE BitsValue(_, _, _)
BitsValue(b, from, n) ==
    IF n = 0 THEN 0
    ELSE (IF b[from] THEN 1 ELSE 0) + 2 * BitsValue(b, from + 1, n - 1)

\* a literal of w bits from its binary digits, most significant first (0b0000'0101)
BinLit(digits) ==
    [i \in 0..(Len(digits) - 1) |-> digits[Len(digits) - i] = 1]

\* a literal of 4*n bits from its n hexadecimal digits, most significant first (0xFF000000)
HexLit(digits) ==
    [i \in 0..(4 * Len(digits) - 1) |->
        (digits[Len(digits) - (i \div 4)] \div Pow2(i % 4)) % 2 = 1]

\* a & b
BitAnd(a, b) == [i \in DOMAIN a |-> a[i] /\ b[i]]
\* a | b
BitOr(a, b) == [i \in DOMAIN a |-> a[i] \/ b[i]]
\* a >> n on an unsigned value: zeros come in from the left
Shr(a, n) == [i \in DOMAIN a |-> IF (i + n) \in DOMAIN a THEN a[i + n] ELSE FALSE]
\* a << n on an unsigned value: the bits shifted past the width are lost
Shl(a, n) == [i \in DOMAIN a |-> IF (i - n) \in DOMAIN a THEN a[i - n] ELSE FALSE]
\* static_cast<std::uint8_t>(a): the low 8 bits, as a number 0..255
CastU8(a) == BitsValue(a, 0, 8)

\* std::bitset member functions
BsSet(b, i) == [b EXCEPT ![i] = TRUE]
BsReset(b, i) == [b EXCEPT ![i] = FALSE]
\* flip() without its argument flips every bit
BsFlip_all(b, i) == [j \in DOMAIN b |-> ~b[j]]
BsFlip(b, i) == [b EXCEPT ![i] = ~b[i]]
BsTest(b, i) == b[i]
BsSize(b) == Cardinality(DOMAIN b)
BsCount(b) == Cardinality({i \in DOMAIN b : b[i]})
BsAny(b) == \E i \in DOMAIN b : b[i]
BsNone(b) == \A i \in DOMAIN b : ~b[i]
BsToUlong(b) == BitsValue(b, 0, BsSize(b))

-----------------------------------------------------------------------------
(* Formatted output on std::cout.                                          *)

Digit == <<"0", "1", "2", "3", "4", "5", "6", "7", "8", "9",
           "a", "b", "c", "d", "e", "f">>

\* the digits of n >= 0 in the given base, without leading zeros
RECURSIVE FmtNat(_, _)
FmtNat(n, base) ==
    IF n < base THEN Digit[n + 1]
    ELSE FmtNat(n \div base, base) \o Digit[(n % base) + 1]

\* exactly 4 hexadecimal digits of n in 0..65535
Fmt4Hex(n) ==
    Digit[(n \div 4096) + 1] \o Digit[((n \div 256) % 16) + 1]
        \o Digit[((n \div 16) % 16) + 1] \o Digit[(n % 16) + 1]

\* operator<< for a non-negative integer of any unsigned type
FmtUnsigned(n, hex) == FmtNat(n, IF hex THEN 16 ELSE 10)

\* operator<< for an int: decimal with a sign; under std::hex the 32-bit
\* two's complement pattern, written as an unsigned number
FmtInt(n, hex) ==
    IF n >= 0 THEN FmtNat(n, IF hex THEN 16 ELSE 10)
    ELSE IF ~hex THEN
        IF n > -10 THEN "-" \o Digit[(0 - n) + 1]
        ELSE IF n % 10 = 0 THEN "-" \o FmtNat(0 - (n \div 10), 10) \o "0"
        ELSE "-" \o FmtNat((0 - (n \div 10)) - 1, 10) \o Digit[(10 - (n % 10)) + 1]
    ELSE FmtNat((n \div 65536) % 65536, 16) \o Fmt4Hex(n % 65536)

\* operator<< for a bool (no std::boolalpha)
FmtBool(b) == IF b THEN "1" ELSE "0"

\* operator<< for a std::bitset: its bits, most significant first
RECURSIVE FmtBits(_, _)
FmtBits(b, n) ==
    IF n = 0 THEN "" ELSE (IF b[n - 1] THEN "1" ELSE "0") \o FmtBits(b, n - 1)

-----------------------------------------------------------------------------
(* printColorChannelsFromRGBA                                               *)

redBits   == HexLit(<<15, 15, 0, 0, 0, 0, 0, 0>>)
greenBits == HexLit(<<0, 0, 15, 15, 0, 0, 0, 0>>)
blueBits  == HexLit(<<0, 0, 0, 0, 15, 15, 0, 0>>)
alphaBits == HexLit(<<0, 0, 0, 0, 0, 0, 15, 15>>)

\* red taken with green's shift
red_shift16(pixel) == CastU8(Shr(BitAnd(pixel, redBits), 16))
\* green taken without its mask and shifted by 12
green_shift12(pixel) == CastU8(Shr(pixel, 12))

red(pixel)   == CastU8(Shr(BitAnd(pixel, redBits), 24))
green(pixel) == CastU8(Shr(BitAnd(pixel, greenBits), 16))
blue(pixel)  == CastU8(Shr(BitAnd(pixel, blueBits), 8))
alpha(pixel) == CastU8(BitAnd(pixel, alphaBits))

\* the values a channel byte takes in the pixels that are tried, as two hex digits
ChannelBytes == {<<0, 0>>, <<3, 3>>, <<7, 15>>, <<8, 0>>, <<15, 15>>}

Pixels ==
    {HexLit(r \o g \o b \o a) : r \in ChannelBytes, g \in ChannelBytes,
                                 b \in ChannelBytes, a \in ChannelBytes}

\* the frame of a function that is not running
NoFrame == [fn |-> "none"]

PrintColorChannelsFromRGBA(pixel) ==
    /\ pc = "idle"
    /\ loc' = [fn |-> "printColorChannelsFromRGBA", pixel |-> pixel,
               red |-> red(pixel), green |-> green(pixel),
               blue |-> blue(pixel), alpha |-> alpha(pixel)]
    /\ coutHex' = TRUE
    /\ out' = << "Your color contains:\n",
                 FmtInt(red(pixel), TRUE) \o " red\n",
                 FmtInt(green(pixel), TRUE) \o " green\n",
                 FmtInt(blue(pixel), TRUE) \o " blue\n",
                 FmtInt(alpha(pixel), TRUE) \o " alpha\n" >>
    /\ input' = <<cinBuf>>
    /\ pc' = "printColorChannelsFromRGBA_ret"
    /\ UNCHANGED <<cinBuf, cinFail, s_count, globals>>

-----------------------------------------------------------------------------
(* bitset()                                                                 *)

isHungry   == 0
isSad      == 1
isMad      == 2
isHappy    == 3
isLaughing == 4
isAsleep   == 5
isDead     == 6
isCrying   == 7

Bitset_init ==
    /\ pc = "idle"
    /\ loc' = [fn |-> "bitset", me |-> BinLit(<<0, 0, 0, 0, 0, 1, 0, 1>>)]
    /\ out' = <<>>
    /\ input' = <<cinBuf>>
    /\ pc' = "bitset_set"
    /\ UNCHANGED <<coutHex, cinBuf, cinFail, s_count, globals>>

Bitset_set ==
    /\ pc = "bitset_set"
    /\ loc' = [loc EXCEPT !.me = BsSet(@, isHappy)]
    /\ pc' = "bitset_flip"
    /\ UNCHANGED <<out, coutHex, cinBuf, cinFail, input, s_count, globals>>

Bitset_flip ==
    /\ pc = "bitset_flip"
    /\ loc' = [loc EXCEPT !.me = BsFlip(@, isLaughing)]
    /\ pc' = "bitset_reset"
    /\ UNCHANGED <<out, coutHex, cinBuf, cinFail, input, s_count, globals>>

Bitset_reset ==
    /\ pc = "bitset_reset"
    /\ loc' = [loc EXCEPT !.me = BsReset(@, isLaughing)]
    /\ pc' = "bitset_print"
    /\ UNCHANGED <<out, coutHex, cinBuf, cinFail, input, s_count, globals>>

Bitset_print ==
    /\ pc = "bitset_print"
    /\ out' = << "My state: " \o FmtBits(loc.me, BsSize(loc.me)) \o "\n",
                 "I am happy? " \o FmtBool(BsTest(loc.me, isHappy)) \o "\n",
                 "I am laughing? " \o FmtBool(BsTest(loc.me, isLaughing)) \o "\n",
                 FmtUnsigned(BsSize(loc.me), coutHex) \o "\n",
                 FmtUnsigned(BsCount(loc.me), coutHex) \o "\n",
                 FmtBool(BsAny(loc.me)) \o "\n",
                 FmtBool(BsNone(loc.me)) \o "\n",
                 FmtUnsigned(BsToUlong(loc.me), coutHex) \o "\n" >>
    /\ pc' = "bitset_ret"
    /\ UNCHANGED <<loc, coutHex, cinBuf, cinFail, input, s_count, globals>>

-----------------------------------------------------------------------------
(* rotl and rotl_bitwise on std::bitset<4>                                  *)

Bits4 == [0..3 -> BOOLEAN]

\* the shift alone: the leftmost bit is lost
rotl_lostBit(bits) == Shl(bits, 1)

rotl(bits) ==
    LET leftbit == BsTest(bits, 3)
        shifted == Shl(bits, 1)
    IN  IF leftbit THEN BsSet(shifted, 0) ELSE shifted

rotl_bitwise(bits) == BitOr(Shl(bits, 1), Shr(bits, 3))

Rotl(bits) ==
    /\ pc = "idle"
    /\ loc' = [fn |-> "rotl", bits |-> bits, ret |-> rotl(bits)]
    /\ out' = <<>>
    /\ input' = <<cinBuf>>
    /\ pc' = "rotl_ret"
    /\ UNCHANGED <<coutHex, cinBuf, cinFail, s_count, globals>>

Rotl_bitwise(bits) ==
    /\ pc = "idle"
    /\ loc' = [fn |-> "rotl_bitwise", bits |-> bits, ret |-> rotl_bitwise(bits)]
    /\ out' = <<>>
    /\ input' = <<cinBuf>>
    /\ pc' = "rotl_bitwise_ret"
    /\ UNCHANGED <<coutHex, cinBuf, cinFail, s_count, globals>>

-----------------------------------------------------------------------------
(* struct Counter: a fresh Counter is made, then incremented with ++c or    *)
(* c++ any number of times.  loc.n counts the increments made.              *)

\* Counter& operator++(): the new state of the object and what is returned
PrefixIncrement(c) ==
    LET c2 == [c EXCEPT !.value = @ + 1]
    IN  [obj |-> c2, ret |-> c2, retIsThis |-> TRUE]

\* a postfix increment that returns the incremented object
PostfixIncrement_returnsNew(c) ==
    LET c2 == [c EXCEPT !.value = @ + 1]
    IN  [obj |-> c2, ret |-> c2, retIsThis |-> FALSE]

\* Counter operator++(int)
PostfixIncrement(c) ==
    LET temp == c
        c2 == [c EXCEPT !.value = @ + 1]
    IN  [obj |-> c2, ret |-> temp, retIsThis |-> FALSE]

Counter_new ==
    /\ pc = "idle"
    /\ loc' = [fn |-> "Counter", c |-> [value |-> 0], n |-> 0, v |-> 0,
               op |-> "none", ret |-> [value |-> 0], retIsThis |-> FALSE]
    /\ out' = <<>>
    /\ input' = <<cinBuf>>
    /\ pc' = "Counter_use"
    /\ UNCHANGED <<coutHex, cinBuf, cinFail, s_count, globals>>

Counter_prefix ==
    /\ pc = "Counter_use"
    /\ loc.n < MaxIncr
    /\ LET r == PrefixIncrement(loc.c)
       IN  loc' = [loc EXCEPT !.c = r.obj, !.n = @ + 1, !.v = loc.c.value,
                              !.op = "prefix", !.ret = r.ret,
                              !.retIsThis = r.retIsThis]
    /\ UNCHANGED <<pc, out, coutHex, cinBuf, cinFail, input, s_count, globals>>

Counter_postfix ==
    /\ pc = "Counter_use"
    /\ loc.n < MaxIncr
    /\ LET r == PostfixIncrement(loc.c)
       IN  loc' = [loc EXCEPT !.c = r.obj, !.n = @ + 1, !.v = loc.c.value,
                              !.op = "postfix", !.ret = r.ret,
                              !.retIsThis = r.retIsThis]
    /\ UNCHANGED <<pc, out, coutHex, cinBuf, cinFail, input, s_count, globals>>

Counter_done ==
    /\ pc = "Counter_use"
    /\ pc' = "Counter_ret"
    /\ UNCHANGED <<loc, out, coutHex, cinBuf, cinFail, input, s_count, globals>>

-----------------------------------------------------------------------------
(* counter() and incrementCount()                                           *)

\* a counter whose local is automatic: initialized to 0 by every call
counter_automatic(count) == LET fresh == 0 IN fresh + 1

\* the body of counter(): ++s_count on the static local
counter(count) == count + 1

Counter_call ==
    /\ pc = "idle"
    /\ s_count < MaxCalls
    /\ s_count' = counter(s_count)
    /\ loc' = [fn |-> "counter"]
    /\ out' = <<>>
    /\ input' = <<cinBuf>>
    /\ pc' = "counter_ret"
    /\ UNCHANGED <<coutHex, cinBuf, cinFail, globals>>

IncrementCount_call ==
    /\ pc = "idle"
    /\ s_count + 3 <= MaxCalls
    /\ loc' = [fn |-> "incrementCount", calls |-> 0, before |-> s_count]
    /\ out' = <<>>
    /\ input' = <<cinBuf>>
    /\ pc' = "incrementCount_body"
    /\ UNCHANGED <<coutHex, cinBuf, cinFail, s_count, globals>>

IncrementCount_step ==
    /\ pc = "incrementCount_body"
    /\ s_count' = counter(s_count)
    /\ loc' = [loc EXCEPT !.calls = @ + 1]
    /\ pc' = IF loc.calls + 1 = 3 THEN "incrementCount_ret" ELSE pc
    /\ UNCHANGED <<out, coutHex, cinBuf, cinFail, input, globals>>

-----------------------------------------------------------------------------
(* int arithmetic.  An int has 32 bits; signed overflow is undefined        *)
(* behaviour, reported here as ub with the value a wrapping build gives.    *)

INT_MAX == 2147483647
INT_MIN == (0 - INT_MAX) - 1

\* x + y
IntAdd(x, y) ==
    IF y > 0 /\ x > INT_MAX - y
        THEN [ub |-> TRUE, val |-> ((x - INT_MAX) - 1) + ((y - INT_MAX) - 1)]
    ELSE IF y < 0 /\ x < INT_MIN - y
        THEN [ub |-> TRUE, val |-> ((x + INT_MAX) + 1) + ((y + INT_MAX) + 1)]
    ELSE [ub |-> FALSE, val |-> x + y]

\* x - y
IntSub(x, y) ==
    IF y < 0 /\ x > INT_MAX + y
        THEN [ub |-> TRUE, val |-> ((x - INT_MAX) - 1) - ((y + INT_MAX) + 1)]
    ELSE IF y > 0 /\ x < INT_MIN + y
        THEN [ub |-> TRUE, val |-> ((x + INT_MAX) + 1) - ((y - INT_MAX) - 1)]
    ELSE [ub |-> FALSE, val |-> x - y]

\* v * 2^k for v >= 0, wrapped to 32 bits (k is 8 or 16)
ShlWrap(v, k) ==
    LET m == v % Pow2(32 - k)
    IN  IF m >= Pow2(31 - k) THEN (m - Pow2(32 - k)) * Pow2(k) ELSE m * Pow2(k)

\* x * y for 0 <= x, y <= INT_MAX, wrapped to 32 bits.  With x = xh * 2^16 +
\* xl, xl = a * 2^8 + b and y = yh * 2^16 + yl, the product is, modulo 2^32,
\* b * yl + 2^8 * (a * yl) + 2^16 * (xh * yl + xl * yh).
MulWrap(x, y) ==
    LET xh == x \div 65536
        xl == x % 65536
        yh == y \div 65536
        yl == y % 65536
        a == xl \div 256
        b == xl % 256
        low == IntAdd(b * yl, ShlWrap(a * yl, 8)).val
        cross == ((xh * yl) % 65536) + ((xl * yh) % 65536)
    IN  IntAdd(low, ShlWrap(cross, 16)).val

\* x * y
IntMul(x, y) ==
    IF x = 0 \/ y = 0 THEN [ub |-> FALSE, val |-> 0]
    ELSE IF x = INT_MIN \/ y = INT_MIN THEN
        LET k == IF x = INT_MIN THEN y ELSE x
        IN  [ub |-> k # 1, val |-> IF k % 2 = 1 THEN INT_MIN ELSE 0]
    ELSE
        LET ax == IF x < 0 THEN 0 - x ELSE x
            ay == IF y < 0 THEN 0 - y ELSE y
            neg == (x < 0) # (y < 0)
            fits == \/ ax <= INT_MAX \div ay
                    \/ neg /\ ax = (INT_MAX \div ay) + 1 /\ INT_MAX % ay = ay - 1
            mag == MulWrap(ax, ay)
        IN  [ub |-> ~fits, val |-> IF neg THEN IntSub(0, mag).val ELSE mag]

-----------------------------------------------------------------------------
(* Namespaces: doSomething, Foo::doSomething and Foo::doSomethingElse.      *)
(* A name is the path of namespaces that holds it, then the identifier.     *)

\* the functions declared when Foo::doSomethingElse is compiled
Declared == { <<"doSomething">>, <<"Foo", "doSomething">> }

\* a lookup that goes to the global namespace whatever the scope
UnqualifiedLookup_globalFirst(scope, id) == <<id>>

\* unqualified lookup of id from inside namespace scope: the innermost
\* enclosing namespace that declares id wins, the global namespace is last
RECURSIVE UnqualifiedLookup(_, _)
UnqualifiedLookup(scope, id) ==
    IF Append(scope, id) \in Declared THEN Append(scope, id)
    ELSE IF scope = <<>> THEN <<>>
    ELSE UnqualifiedLookup(SubSeq(scope, 1, Len(scope) - 1), id)

\* ::id names id in the global namespace
GlobalLookup(id) == <<id>>

\* int doSomething(int x, int y) { return x + y; }
doSomething(x, y) == IntAdd(x, y)

\* int Foo::doSomething(int x, int y) { return x - y; }
Foo_doSomething(x, y) == IntSub(x, y)

\* a call of the function a name resolves to
CallByName(name, x, y) ==
    IF name = <<"doSomething">> THEN doSomething(x, y)
    ELSE Foo_doSomething(x, y)

\* int Foo::doSomethingElse(int x, int y)
Foo_doSomethingElse(x, y) ==
    LET first  == GlobalLookup("doSomething")
        second == UnqualifiedLookup(<<"Foo">>, "doSomething")
        a == CallByName(first, x, y)
        b == CallByName(second, x, y)
        sum == IntAdd(a.val, b.val)
    IN  [first |-> first, second |-> second,
         ub |-> a.ub \/ b.ub \/ sum.ub, val |-> sum.val]

\* the arguments that are tried
IntArgs == {INT_MIN, -3, 0, 1, 6, 1073741824, INT_MAX}

\* without undefined behaviour the call returns its value; with it the build
\* decides: the wrapped value is returned or the overflow traps
DoSomethingElse(x, y) ==
    /\ pc = "idle"
    /\ LET r == Foo_doSomethingElse(x, y)
       IN  \E trap \in (IF r.ub THEN BOOLEAN ELSE {FALSE}) :
             /\ loc' = [fn |-> "Foo::doSomethingElse", x |-> x, y |-> y,
                        first |-> r.first, second |-> r.second,
                        ub |-> r.ub, ret |-> r.val]
             /\ pc' = IF trap THEN "trapped" ELSE "Foo::doSomethingElse_ret"
    /\ out' = <<>>
    /\ input' = <<cinBuf>>
    /\ UNCHANGED <<coutHex, cinBuf, cinFail, s_count, globals>>

-----------------------------------------------------------------------------
(* std::cin >> int.  The buffer is a sequence of characters; the user       *)
(* types a whole line, ended by a newline, when the program waits for one.  *)

Whitespace == {" ", "\t", "\n"}
DecDigits == {"0", "1", "2", "3", "4", "5", "6", "7", "8", "9"}
DigitValue(c) == CHOOSE d \in 0..9 : Digit[d + 1] = c

\* an extraction that does not skip whitespace
SkipWs_none(buf) == buf

\* the buffer without its leading whitespace
RECURSIVE SkipWs(_)
SkipWs(buf) ==
    IF buf # <<>> /\ Head(buf) \in Whitespace THEN SkipWs(Tail(buf)) ELSE buf

\* how many digits the buffer starts with
RECURSIVE LeadingDigits(_)
LeadingDigits(buf) ==
    IF buf # <<>> /\ Head(buf) \in DecDigits THEN 1 + LeadingDigits(Tail(buf)) ELSE 0

\* minus the number the digits spell, from acc; 1 when it does not fit an int
RECURSIVE Accumulate(_, _)
Accumulate(digits, acc) ==
    IF digits = <<>> THEN acc
    ELSE LET d == DigitValue(Head(digits))
         IN  IF acc < (INT_MIN + d + 9) \div 10 THEN 1
             ELSE Accumulate(Tail(digits), acc * 10 - d)

\* one extraction from a stream in a good state.  blocked: the buffer holds
\* no complete token and the extraction waits for more input.
ExtractFromGood(buf, old) ==
    LET b1 == SkipWs(buf)
        signed == b1 # <<>> /\ Head(b1) \in {"+", "-"}
        neg == b1 # <<>> /\ Head(b1) = "-"
        b2 == IF signed THEN Tail(b1) ELSE b1
        k == LeadingDigits(b2)
        rest == SubSeq(b2, k + 1, Len(b2))
        m == Accumulate(SubSeq(b2, 1, k), 0)
    IN  IF k = Len(b2)
          THEN [blocked |-> TRUE, buf |-> buf, fail |-> FALSE, val |-> old]
        ELSE IF k = 0
          THEN [blocked |-> FALSE, buf |-> b2, fail |-> TRUE, val |-> 0]
        ELSE IF m = 1 \/ (~neg /\ m = INT_MIN)
          THEN [blocked |-> FALSE, buf |-> rest, fail |-> TRUE,
                val |-> IF neg THEN INT_MIN ELSE INT_MAX]
        ELSE [blocked |-> FALSE, buf |-> rest, fail |-> FALSE,
              val |-> IF neg THEN m ELSE 0 - m]

\* an extraction that goes ahead although the stream has failed
ExtractInt_notSticky(buf, fail, old) ==
    LET r == ExtractFromGood(buf, old)
    IN  [r EXCEPT !.fail = r.fail \/ (fail /\ ~r.blocked)]

\* std::cin >> x for an int x whose value is old: nothing happens when the
\* stream has failed
ExtractInt(buf, fail, old) ==
    IF fail THEN [blocked |-> FALSE, buf |-> buf, fail |-> TRUE, val |-> old]
    ELSE ExtractFromGood(buf, old)

\* the lines the user types at the prompt of cin_demo
CinDemoLines ==
    { <<"4", " ", "5", "\n">>, <<"4", "\n">>, <<"5", "\n">>,
      <<"5", "a", "\n">>, <<"b", "\n">>, <<"-", "3", "\n">>,
      <<" ", "+", "7", "\n">>,
      <<"9", "9", "9", "9", "9", "9", "9", "9", "9", "9", " ", "5", "\n">> }

\* the lines the user types at the prompts of getValue
GetValueLines ==
    { <<"1", "\n">>, <<"2", "\n">>, <<"3", "\n">>, <<"4", " ", "5", "\n">>,
      <<"b", "\n">>,
      <<"9", "9", "9", "9", "9", "9", "9", "9", "9", "9", " ", "5", "\n">> }

Lines == CinDemoLines \cup GetValueLines

\* the positions at which the next statement is an extraction from std::cin
AtExtraction == pc \in {"cin_demo_x", "cin_demo_y", "order_of_evaluation_args"}

\* the user types a line when the program waits for input
TypeLine(line) ==
    /\ AtExtraction
    /\ line \in (IF pc = "order_of_evaluation_args" THEN GetValueLines ELSE CinDemoLines)
    /\ ExtractInt(cinBuf, cinFail, 0).blocked
    /\ cinBuf' = cinBuf \o line
    /\ input' = Append(input, line)
    /\ UNCHANGED <<pc, loc, out, coutHex, cinFail, s_count, globals>>

-----------------------------------------------------------------------------
(* cin_demo                                                                 *)

Cin_demo_call ==
    /\ pc = "idle"
    /\ loc' = [fn |-> "cin_demo"]
    /\ out' = << "Enter two numbers: " >>
    /\ input' = <<cinBuf>>
    /\ pc' = "cin_demo_x"
    /\ UNCHANGED <<coutHex, cinBuf, cinFail, s_count, globals>>

\* int x{}; std::cin >> x;
Cin_demo_x ==
    /\ pc = "cin_demo_x"
    /\ LET r == ExtractInt(cinBuf, cinFail, 0)
       IN  /\ ~r.blocked
           /\ loc' = [fn |-> "cin_demo", x |-> r.val]
           /\ cinBuf' = r.buf
           /\ cinFail' = r.fail
    /\ pc' = "cin_demo_y"
    /\ UNCHANGED <<out, coutHex, input, s_count, globals>>

\* int y{}; std::cin >> y;
Cin_demo_y ==
    /\ pc = "cin_demo_y"
    /\ LET r == ExtractInt(cinBuf, cinFail, 0)
       IN  /\ ~r.blocked
           /\ loc' = [fn |-> "cin_demo", x |-> loc.x, y |-> r.val]
           /\ cinBuf' = r.buf
           /\ cinFail' = r.fail
    /\ pc' = "cin_demo_print"
    /\ UNCHANGED <<out, coutHex, input, s_count, globals>>

Cin_demo_print ==
    /\ pc = "cin_demo_print"
    /\ out' = Append(out, "You entered " \o FmtInt(loc.x, coutHex) \o " and "
                            \o FmtInt(loc.y, coutHex) \o "\n")
    /\ pc' = "cin_demo_ret"
    /\ UNCHANGED <<loc, coutHex, cinBuf, cinFail, input, s_count, globals>>

-----------------------------------------------------------------------------
(* getValue, printCalculation and order_of_evaluation                       *)

\* int getValue(): the prompt, then int x{}; std::cin >> x; return x;
getValue(buf, fail) == ExtractInt(buf, fail, 0)

\* (x + y) * z in place of x + (y * z)
printCalculation_wrongPrecedence(x, y, z, hex) ==
    LET sum == IntAdd(x, y)
        prod == IntMul(sum.val, z)
    IN  [ub |-> prod.ub \/ sum.ub, val |-> prod.val, text |-> FmtInt(prod.val, hex)]

\* printCalculation(x, y, z): the value of x + (y * z), and what is written
printCalculation(x, y, z, hex) ==
    LET prod == IntMul(y, z)
        sum == IntAdd(x, prod.val)
    IN  [ub |-> prod.ub \/ sum.ub, val |-> sum.val, text |-> FmtInt(sum.val, hex)]

\* loc.args[i] is the value of the i-th argument once its getValue() has run;
\* loc.order lists the arguments in the order in which they were evaluated
Order_of_evaluation_call ==
    /\ pc = "idle"
    /\ loc' = [fn |-> "order_of_evaluation", args |-> <<0, 0, 0>>, order |-> <<>>]
    /\ out' = <<>>
    /\ input' = <<cinBuf>>
    /\ pc' = "order_of_evaluation_args"
    /\ UNCHANGED <<coutHex, cinBuf, cinFail, s_count, globals>>

\* the argument evaluated next is any that has not been evaluated yet
Order_of_evaluation_arg(i) ==
    /\ pc = "order_of_evaluation_args"
    /\ \A k \in 1..Len(loc.order) : loc.order[k] # i
    /\ LET r == getValue(cinBuf, cinFail)
       IN  /\ ~r.blocked
           /\ loc' = [loc EXCEPT !.args[i] = r.val, !.order = Append(@, i)]
           /\ cinBuf' = r.buf
           /\ cinFail' = r.fail
    /\ out' = Append(out, "Enter an integer: ")
    /\ pc' = IF Len(loc.order) = 2 THEN "order_of_evaluation_print" ELSE pc
    /\ UNCHANGED <<coutHex, input, s_count, globals>>

\* an overflow in x + (y * z) is undefined behaviour: the wrapped value is
\* written or the overflow traps
Order_of_evaluation_print ==
    /\ pc = "order_of_evaluation_print"
    /\ LET r == printCalculation(loc.args[1], loc.args[2], loc.args[3], coutHex)
       IN  \E trap \in (IF r.ub THEN BOOLEAN ELSE {FALSE}) :
             /\ out' = IF trap THEN out ELSE Append(out, r.text)
             /\ pc' = IF trap THEN "trapped" ELSE "order_of_evaluation_ret"
    /\ UNCHANGED <<loc, coutHex, cinBuf, cinFail, input, s_count, globals>>

-----------------------------------------------------------------------------
(* std::string objects and the std::string_view values that view them, in   *)
(* string_view_improper_use().  A view does not own what it views: it is    *)
(* valid as long as what it views is still there, unmodified.  A C-style    *)
(* string literal exists for the whole program; a std::string exists from   *)
(* its construction to its destruction, and modifying it invalidates the    *)
(* views of it (gen counts the modifications).                              *)

\* the std::string objects of the function and of the functions it calls:
\* variables by their names, temporaries by the expressions that make them
StringObjects ==
    { "block::s", "getName::s", "getName()", "getName2::name",
      "Gowthaman s", "s", "s2" }

ViewNames == { "sv", "sv2", "sv3", "sv4", "sv5", "sv6", "sv7", "sv8", "sv9" }

NoString == [state |-> "none", text |-> "", gen |-> 0]
NoView == [kind |-> "none", of |-> "", gen |-> 0]

\* std::string obj{ text }
Construct(strings, obj, text) ==
    [strings EXCEPT ![obj] = [state |-> "alive", text |-> text, gen |-> 0]]

\* a std::string that is never destroyed
Destroy_leaked(strings, obj) == strings

\* the end of the lifetime of a std::string
Destroy(strings, obj) == [strings EXCEPT ![obj].state = "destroyed"]

\* obj = text
AssignString(strings, obj, text) ==
    [strings EXCEPT ![obj].text = text, ![obj].gen = @ + 1]

\* std::string_view{}
EmptyView == [kind |-> "empty", of |-> "", gen |-> 0]

\* the conversion of a C-style string literal to std::string_view
ViewOfLiteral(text) == [kind |-> "literal", of |-> text, gen |-> 0]

\* the conversion of a std::string to std::string_view
ViewOfString(strings, obj) ==
    [kind |-> "string", of |-> obj, gen |-> strings[obj].gen]

\* what the view views is still there
Valid(strings, view) ==
    \/ view.kind \in { "empty", "literal" }
    \/ /\ view.kind = "string"
       /\ strings[view.of].state = "alive"
       /\ strings[view.of].gen = view.gen

\* std::string getName(): returns its local s by value; the value returned
\* is the temporary "getName()" of the calling expression
getName(strings) ==
    LET local == Construct(strings, "getName::s", "Gowthaman")
        returned == Construct(local, "getName()", local["getName::s"].text)
    IN  [strings |-> Destroy(returned, "getName::s"), result |-> "getName()"]

\* std::string_view getName2(): returns a view of its local name
getName2(strings) ==
    LET local == Construct(strings, "getName2::name", "Gowthaman")
        returned == ViewOfString(local, "getName2::name")
    IN  [strings |-> Destroy(local, "getName2::name"), result |-> returned]

\* std::string_view getName3()
getName3 == ViewOfLiteral("Gowthaman")

\* std::string_view getName4(std::string_view name)
getName4(name) == name

\* the statements of string_view_improper_use(), each named by its line;
\* loc.line is the line of the next statement to execute
Stmt(line, next, strings, views) ==
    /\ pc = "string_view_improper_use_body"
    /\ loc.line = line
    /\ loc' = [loc EXCEPT !.line = next, !.strings = strings, !.views = views]
    /\ UNCHANGED <<pc, out, coutHex, cinBuf, cinFail, input, s_count, globals>>

String_view_improper_use_call ==
    /\ pc = "idle"
    /\ loc' = [fn |-> "string_view_improper_use", line |-> 111,
               strings |-> [obj \in StringObjects |-> NoString],
               views |-> [sv \in ViewNames |-> NoView]]
    /\ out' = <<>>
    /\ input' = <<cinBuf>>
    /\ pc' = "string_view_improper_use_body"
    /\ UNCHANGED <<coutHex, cinBuf, cinFail, s_count, globals>>

\* std::string_view sv{};
Sv_declare ==
    Stmt(111, 114, loc.strings, [loc.views EXCEPT !["sv"] = EmptyView])

\* { std::string s{ "Hello, world!" };
Block_s ==
    Stmt(114, 115, Construct(loc.strings, "block::s", "Hello, world!"), loc.views)

\* sv = s;
Sv_assign ==
    Stmt(115, 116, loc.strings,
         [loc.views EXCEPT !["sv"] = ViewOfString(loc.strings, "block::s")])

\* }
Block_end ==
    Stmt(116, 122, Destroy(loc.strings, "block::s"), loc.views)

\* std::string_view sv2{getName()};  the temporary is destroyed at the end
\* of the statement
Sv2_init ==
    LET call == getName(loc.strings)
    IN  Stmt(122, 123, Destroy(call.strings, call.result),
             [loc.views EXCEPT !["sv2"] = ViewOfString(call.strings, call.result)])

\* std::string_view sv3(getName2());
Sv3_init ==
    LET call == getName2(loc.strings)
    IN  Stmt(123, 124, call.strings, [loc.views EXCEPT !["sv3"] = call.result])

\* std::string_view sv4(getName3());
Sv4_init ==
    Stmt(124, 125, loc.strings, [loc.views EXCEPT !["sv4"] = getName3])

\* std::string_view sv5(getName4("Gowthaman"));
Sv5_init ==
    Stmt(125, 126, loc.strings,
         [loc.views EXCEPT !["sv5"] = getName4(ViewOfLiteral("Gowthaman"))])

\* std::string_view sv6(getName4("Gowthamans"));
Sv6_init ==
    Stmt(126, 129, loc.strings,
         [loc.views EXCEPT !["sv6"] = getName4(ViewOfLiteral("Gowthamans"))])

\* std::string_view sv7 {"Gowthaman"s};  the std::string literal is a
\* temporary, destroyed at the end of the statement
Sv7_init ==
    LET temporary == Construct(loc.strings, "Gowthaman s", "Gowthaman")
    IN  Stmt(129, 133, Destroy(temporary, "Gowthaman s"),
             [loc.views EXCEPT !["sv7"] = ViewOfString(temporary, "Gowthaman s")])

\* std::string_view sv8 {"Gowthaman"};
Sv8_init ==
    Stmt(133, 135, loc.strings,
         [loc.views EXCEPT !["sv8"] = ViewOfLiteral("Gowthaman")])

\* std::string s {"Hello, world!"};
S_init ==
    Stmt(135, 136, Construct(loc.strings, "s", "Hello, world!"), loc.views)

\* std::string_view sv9 { s };
Sv9_init ==
    Stmt(136, 143, loc.strings,
         [loc.views EXCEPT !["sv9"] = ViewOfString(loc.strings, "s")])

\* s = "Hello, a!";
S_assign ==
    Stmt(143, 145, AssignString(loc.strings, "s", "Hello, a!"), loc.views)

\* std::string s2 {"Foobar"};
S2_init ==
    Stmt(145, 146, Construct(loc.strings, "s2", "Foobar"), loc.views)

\* sv5 = s2;
Sv5_assign ==
    Stmt(146, 147, loc.strings,
         [loc.views EXCEPT !["sv5"] = ViewOfString(loc.strings, "s2")])

\* }  the locals go out of scope
String_view_improper_use_end ==
    /\ pc = "string_view_improper_use_body"
    /\ loc.line = 147
    /\ loc' = [loc EXCEPT !.strings = Destroy(Destroy(@, "s2"), "s"),
                          !.views = [sv \in ViewNames |-> NoView]]
    /\ pc' = "string_view_improper_use_ret"
    /\ UNCHANGED <<out, coutHex, cinBuf, cinFail, input, s_count, globals>>

-----------------------------------------------------------------------------
(* Initialization of the globals g_init_x and g_init_y, before main.        *)
(* Both are zero-initialized first.  Their initializers call functions, so  *)
(* they are then initialized dynamically, in the order of their definitions *)
(* in the translation unit; an implementation is permitted to initialize    *)
(* statically a variable whose initializer changes no other static object   *)
(* and gives the same value either way ([basic.start.static]): g_init_y is  *)
(* such a variable, g_init_x is one too but its value is the one dynamic    *)
(* initialization of all the variables gives.                               *)

\* the definitions in the reverse order: g_init_y before g_init_x
InitOrder_yFirst == <<"g_init_y", "g_init_x">>

\* the order of the definitions of the dynamically initialized globals
InitOrder == <<"g_init_x", "g_init_y">>

\* int init_x(): reads the global g_init_y
init_x(g) == g.g_init_y

\* int init_y()
init_y == 5

Initializer(name, g) == IF name = "g_init_x" THEN init_x(g) ELSE init_y

\* the globals after zero-initialization; static_y tells whether this build
\* initializes g_init_y statically
ZeroInitialized(static_y) ==
    [g_init_x |-> 0, g_init_y |-> 0, static_y |-> static_y]

\* static initialization: what is in the image when the program is loaded
Static_init ==
    /\ pc = "static_init"
    /\ \E static_y \in BOOLEAN :
         globals' = [ZeroInitialized(static_y) EXCEPT
                       !.g_init_y = IF static_y THEN init_y ELSE @]
    /\ pc' = "dynamic_init"
    /\ loc' = [fn |-> "startup", next |-> 1]
    /\ UNCHANGED <<out, coutHex, cinBuf, cinFail, input, s_count>>

\* dynamic initialization of the next global in the order of definition;
\* after the last one main begins
Dynamic_init ==
    /\ pc = "dynamic_init"
    /\ LET name == InitOrder[loc.next]
       IN  globals' = IF name = "g_init_y" /\ globals.static_y
                      THEN globals
                      ELSE [globals EXCEPT ![name] = Initializer(name, globals)]
    /\ IF loc.next = Len(InitOrder)
       THEN pc' = "idle" /\ loc' = NoFrame
       ELSE pc' = pc /\ loc' = [loc EXCEPT !.next = @ + 1]
    /\ UNCHANGED <<out, coutHex, cinBuf, cinFail, input, s_count>>

-----------------------------------------------------------------------------
(* The caller.                                                              *)

ReturnPoints ==
    { "printColorChannelsFromRGBA_ret", "bitset_ret", "rotl_ret",
      "rotl_bitwise_ret", "Counter_ret", "counter_ret", "incrementCount_ret",
      "Foo::doSomethingElse_ret", "cin_demo_ret", "order_of_evaluation_ret",
      "string_view_improper_use_ret" }

\* a frame that outlives the call, as if the locals were static
FrameAfterReturn_kept(frame) == frame

\* the frame of the function that returns is destroyed
FrameAfterReturn(frame) == NoFrame

Return ==
    /\ pc \in ReturnPoints
    /\ pc' = "idle"
    /\ loc' = FrameAfterReturn(loc)
    /\ out' = <<>>
    /\ input' = <<>>
    /\ UNCHANGED <<coutHex, cinBuf, cinFail, s_count, globals>>

\* the program is loaded: no initializer has run, main has not begun
Init ==
    /\ pc = "static_init"
    /\ loc = NoFrame
    /\ out = <<>>
    /\ coutHex = FALSE
    /\ cinBuf = <<>>
    /\ cinFail = FALSE
    /\ input = <<>>
    /\ s_count = 0
    /\ globals = ZeroInitialized(FALSE)

Next ==
    \/ Static_init
    \/ Dynamic_init
    \/ \E pixel \in Pixels : PrintColorChannelsFromRGBA(pixel)
    \/ Bitset_init
    \/ Bitset_set
    \/ Bitset_flip
    \/ Bitset_reset
    \/ Bitset_print
    \/ \E bits \in Bits4 : Rotl(bits)
    \/ \E bits \in Bits4 : Rotl_bitwise(bits)
    \/ Counter_new
    \/ Counter_prefix
    \/ Counter_postfix
    \/ Counter_done
    \/ Counter_call
    \/ IncrementCount_call
    \/ IncrementCount_step
    \/ \E x \in IntArgs, y \in IntArgs : DoSomethingElse(x, y)
    \/ \E line \in Lines : TypeLine(line)
    \/ Cin_demo_call
    \/ Cin_demo_x
    \/ Cin_demo_y
    \/ Cin_demo_print
    \/ Order_of_evaluation_call
    \/ \E i \in 1..3 : Order_of_evaluation_arg(i)
    \/ Order_of_evaluation_print
    \/ String_view_improper_use_call
    \/ Sv_declare
    \/ Block_s
    \/ Sv_assign
    \/ Block_end
    \/ Sv2_init
    \/ Sv3_init
    \/ Sv4_init
    \/ Sv5_init
    \/ Sv6_init
    \/ Sv7_init
    \/ Sv8_init
    \/ S_init
    \/ Sv9_init
    \/ S_assign
    \/ S2_init
    \/ Sv5_assign
    \/ String_view_improper_use_end
    \/ Return

Spec == Init /\ [][Next]_vars

-----------------------------------------------------------------------------
(* Properties.                                                              *)

Pixel_FF7F3300 == HexLit(<<15, 15, 7, 15, 3, 3, 0, 0>>)

\* C1: when printColorChannelsFromRGBA has run on pixel p, red is the value
\* of bits 31-24 of p (floor(p / 2^24) mod 256), green of bits 23-16, blue of
\* bits 15-8 and alpha of bits 7-0; each lies in 0..255; the four are written
\* in hexadecimal in the order red, green, blue, alpha, and for 0xFF7F3300
\* the lines are ff, 7f, 33 and 0.
C1_ChannelsOfPixel ==
    pc = "printColorChannelsFromRGBA_ret" =>
        /\ loc.red = BitsValue(loc.pixel, 24, 8)
        /\ loc.green = BitsValue(loc.pixel, 16, 8)
        /\ loc.blue = BitsValue(loc.pixel, 8, 8)
        /\ loc.alpha = BitsValue(loc.pixel, 0, 8)
        /\ {loc.red, loc.green, loc.blue, loc.alpha} \subseteq 0..255
        /\ out = << "Your color contains:\n",
                    FmtNat(loc.red, 16) \o " red\n",
                    FmtNat(loc.green, 16) \o " green\n",
                    FmtNat(loc.blue, 16) \o " blue\n",
                    FmtNat(loc.alpha, 16) \o " alpha\n" >>
        /\ loc.pixel = Pixel_FF7F3300 =>
             out = << "Your color contains:\n", "ff red\n", "7f green\n",
                      "33 blue\n", "0 alpha\n" >>

C1_Witness ==
    /\ pc = "printColorChannelsFromRGBA_ret"
    /\ loc.pixel = Pixel_FF7F3300
    /\ <<loc.red, loc.green, loc.blue, loc.alpha>> = <<255, 127, 51, 0>>
    /\ out[2] = "ff red\n"

\* the lowest bit of each channel
ChannelLow == [r |-> 24, g |-> 16, b |-> 8, a |-> 0]

\* pixel p with the 8 bits of channel ch replaced by those of the byte v
WithChannel(p, ch, v) ==
    [i \in DOMAIN p |->
        IF i \in ChannelLow[ch]..(ChannelLow[ch] + 7)
            THEN (v \div Pow2(i - ChannelLow[ch])) % 2 = 1
            ELSE p[i]]

\* the bytes tried in place of a channel
OtherBytes == {0, 1, 128, 170, 255}

\* C2: a pixel that differs from the pixel of the call only in the 8 bits of
\* one channel has the same values in the other three channels.
C2_ChannelsIndependent ==
    pc = "printColorChannelsFromRGBA_ret" =>
        \A ch \in DOMAIN ChannelLow : \A v \in OtherBytes :
            LET q == WithChannel(loc.pixel, ch, v)
            IN  /\ ch # "r" => red(q) = loc.red
                /\ ch # "g" => green(q) = loc.green
                /\ ch # "b" => blue(q) = loc.blue
                /\ ch # "a" => alpha(q) = loc.alpha

C2_Witness ==
    /\ pc = "printColorChannelsFromRGBA_ret"
    /\ loc.pixel = Pixel_FF7F3300
    /\ LET q == WithChannel(loc.pixel, "b", 170)
       IN  /\ q # loc.pixel
           /\ blue(q) = 170
           /\ <<red(q), green(q), alpha(q)>> = <<loc.red, loc.green, loc.alpha>>

\* the states of the flag set, as written in the comments of bitset()
Me_0000_0101 == BinLit(<<0, 0, 0, 0, 0, 1, 0, 1>>)
Me_0000_1101 == BinLit(<<0, 0, 0, 0, 1, 1, 0, 1>>)
Me_0001_1101 == BinLit(<<0, 0, 0, 1, 1, 1, 0, 1>>)

\* C3: the eight flags of bitset() are the distinct positions 0..7; the flag
\* set is 0000'0101 at first, 0000'1101 after set(isHappy), 0001'1101 after
\* flip(isLaughing) and 0000'1101 after reset(isLaughing); at the end
\* test(isHappy) is true, test(isLaughing) false, count() 3, any() true,
\* none() false and to_ulong() 13.
C3_BitsetStates ==
    /\ Cardinality({isHungry, isSad, isMad, isHappy, isLaughing, isAsleep,
                    isDead, isCrying}) = 8
    /\ {isHungry, isSad, isMad, isHappy, isLaughing, isAsleep, isDead,
        isCrying} = 0..7
    /\ pc = "bitset_set" => loc.me = Me_0000_0101
    /\ pc = "bitset_flip" =>
         /\ loc.me = Me_0000_1101
         /\ \A i \in 0..7 : i # isHappy => loc.me[i] = Me_0000_0101[i]
    /\ pc = "bitset_reset" =>
         /\ loc.me = Me_0001_1101
         /\ \A i \in 0..7 : i # isLaughing => loc.me[i] = Me_0000_1101[i]
    /\ pc \in {"bitset_print", "bitset_ret"} =>
         /\ loc.me = Me_0000_1101
         /\ BsTest(loc.me, isHappy)
         /\ ~BsTest(loc.me, isLaughing)
         /\ BsCount(loc.me) = 3
         /\ BsAny(loc.me)
         /\ ~BsNone(loc.me)
         /\ BsToUlong(loc.me) = 13
    /\ pc = "bitset_ret" =>
         /\ out[1] = "My state: 00001101\n"
         /\ out[2] = "I am happy? 1\n"
         /\ out[3] = "I am laughing? 0\n"

C3_Witness ==
    /\ pc = "bitset_ret"
    /\ loc.me = Me_0000_1101
    /\ BsToUlong(loc.me) = 13
    /\ Len(out) = 8

C5_RotlRotates ==
    pc = "rotl_ret" =>
        /\ \A i \in 0..3 : loc.ret[i] = loc.bits[(i - 1) % 4]
        /\ BsCount(loc.ret) = BsCount(loc.bits)

C5_Witness ==
    /\ pc = "rotl_ret"
    /\ loc.bits = BinLit(<<1, 0, 0, 1>>)
    /\ loc.ret = BinLit(<<0, 0, 1, 1>>)

\* C6: after an increment of a Counter whose value was v, the value is v + 1;
\* ++c returns c itself, with the value v + 1, and c++ returns a separate
\* copy with the old value v; after n increments of a fresh Counter the
\* value is n.
C6_CounterIncrements ==
    pc \in {"Counter_use", "Counter_ret"} =>
        /\ loc.c.value = loc.n
        /\ loc.op = "prefix" =>
             /\ loc.c.value = loc.v + 1
             /\ loc.retIsThis
             /\ loc.ret.value = loc.v + 1
        /\ loc.op = "postfix" =>
             /\ loc.c.value = loc.v + 1
             /\ ~loc.retIsThis
             /\ loc.ret.value = loc.v

C6_Witness ==
    /\ pc = "Counter_ret"
    /\ loc.n = MaxIncr
    /\ loc.op = "postfix"
    /\ loc.c.value = MaxIncr
    /\ loc.ret.value = MaxIncr - 1

\* C7: in Foo::doSomethingElse, ::doSomething names the global function and
\* the unqualified doSomething names Foo::doSomething, and when no
\* operation overflows the result is (x + y) + (x - y) = 2x.
C7_DoSomethingElse ==
    pc = "Foo::doSomethingElse_ret" =>
        /\ loc.first = <<"doSomething">>
        /\ loc.second = <<"Foo", "doSomething">>
        /\ ~loc.ub => loc.ret = 2 * loc.x

C7_Witness ==
    /\ pc = "Foo::doSomethingElse_ret"
    /\ ~loc.ub
    /\ loc.x = 6
    /\ loc.y = -3
    /\ loc.ret = 12

\* the chunks of input, one after another
RECURSIVE Flatten(_)
Flatten(chunks) ==
    IF chunks = <<>> THEN <<>> ELSE Head(chunks) \o Flatten(Tail(chunks))

IsSuffix(s, t) ==
    /\ Len(s) <= Len(t)
    /\ s = SubSeq(t, Len(t) - Len(s) + 1, Len(t))

\* the input of the running call, without the whitespace in front of it
Offered == SkipWs(Flatten(input))

\* C8: in cin_demo the characters leave the buffer in the order in which
\* they came in and the unread ones stay; an extraction that succeeds stops
\* in front of a character that is not a digit; whitespace in front of a
\* number is skipped.  "4 5\n" gives x = 4 and y = 5, and so do the lines
\* "4\n" and "5\n"; "5a\n" gives x = 5 and leaves "a\n" in the buffer.
C8_BufferedExtraction ==
    /\ pc \in {"cin_demo_x", "cin_demo_y", "cin_demo_print", "cin_demo_ret"} =>
         IsSuffix(cinBuf, Flatten(input))
    /\ pc = "cin_demo_y" /\ ~cinFail =>
         /\ cinBuf # <<>>
         /\ Head(cinBuf) \notin DecDigits
    /\ pc = "cin_demo_y" /\ Offered = <<"5", "a", "\n">> =>
         /\ loc.x = 5
         /\ cinBuf = <<"a", "\n">>
    /\ pc = "cin_demo_y" /\ Offered = <<"+", "7", "\n">> =>
         /\ loc.x = 7
         /\ cinBuf = <<"\n">>
    /\ pc \in {"cin_demo_print", "cin_demo_ret"} =>
         /\ Offered = <<"4", " ", "5", "\n">> =>
              /\ loc.x = 4
              /\ loc.y = 5
              /\ cinBuf = <<"\n">>
         /\ Offered = <<"4", "\n", "5", "\n">> =>
              /\ loc.x = 4
              /\ loc.y = 5
              /\ cinBuf = <<"\n">>

C8_Witness ==
    /\ pc = "cin_demo_ret"
    /\ input = << <<>>, <<"4", "\n">>, <<"5", "\n">> >>
    /\ loc.x = 4
    /\ loc.y = 5
    /\ ~cinFail

\* the buffer holds a character that cannot start a number
NoNumberAhead(buf) ==
    /\ SkipWs(buf) # <<>>
    /\ Head(SkipWs(buf)) \notin (DecDigits \cup {"+", "-"})

\* C9: an extraction that finds no valid character sets its variable to 0
\* and puts std::cin in the failed state; std::cin stays failed, and an
\* extraction from the failed stream leaves the buffer and its variable as
\* they were, so a failure on x in cin_demo leaves y at its initial 0.
C9_FailedExtraction ==
    [][ /\ cinFail => cinFail' /\ cinBuf' = cinBuf
        /\ pc = "cin_demo_x" /\ pc' = "cin_demo_y"
             /\ ~cinFail /\ NoNumberAhead(cinBuf) =>
               /\ cinFail'
               /\ loc'.x = 0
               /\ cinBuf' = SkipWs(cinBuf)
        /\ pc = "cin_demo_y" /\ pc' = "cin_demo_print" /\ cinFail =>
               /\ loc'.y = 0
               /\ loc'.x = loc.x
        /\ pc = "order_of_evaluation_args" /\ loc' # loc /\ cinFail =>
               \E i \in 1..3 : /\ loc'.order = Append(loc.order, i)
                               /\ loc'.args[i] = 0
      ]_vars

C9_Witness ==
    /\ pc = "cin_demo_ret"
    /\ input = << <<>>, <<"b", "\n">> >>
    /\ cinFail
    /\ cinBuf = <<"b", "\n">>
    /\ loc.x = 0
    /\ loc.y = 0

\* C10: with 1, 2 and 3 entered in that order, order_of_evaluation writes 7
\* exactly when the getValue() of the first argument runs first; otherwise
\* it writes 5, as it does when the arguments are evaluated right to left.
C10_OrderOfEvaluation ==
    ( /\ pc = "order_of_evaluation_ret"
      /\ SkipWs(input[1]) = <<>>
      /\ Tail(input) = << <<"1", "\n">>, <<"2", "\n">>, <<"3", "\n">> >> ) =>
        /\ out[Len(out)] \in {"5", "7"}
        /\ out[Len(out)] = "7" <=> loc.order[1] = 1
        /\ loc.order = <<3, 2, 1>> =>
             /\ loc.args = <<3, 2, 1>>
             /\ out[Len(out)] = "5"

C10_Witness ==
    /\ pc = "order_of_evaluation_ret"
    /\ input = << <<>>, <<"1", "\n">>, <<"2", "\n">>, <<"3", "\n">> >>
    /\ loc.order = <<3, 2, 1>>
    /\ out[Len(out)] = "5"

MainBegun == pc \notin { "static_init", "dynamic_init" }

CounterCalled ==
    \/ pc = "idle" /\ pc' = "counter_ret"
    \/ pc = "incrementCount_body"

\* C12: s_count is 0 when the program starts, every call of counter() adds
\* one to it and nothing else changes it, so it always holds the number of
\* calls made so far; inside incrementCount() it is the value found at entry
\* plus the number of calls made (1, 2, 3 in the first incrementCount() of a
\* run in which counter() was not called before), it is that value plus 3
\* when incrementCount() ends, and 6, not 3, after a second incrementCount().
C12_StaticCounter ==
    /\ [](/\ ~MainBegun => s_count = 0
          /\ pc \in { "incrementCount_body", "incrementCount_ret" } =>
               /\ loc.calls \in 0..3
               /\ s_count = loc.before + loc.calls
          /\ pc = "incrementCount_body" => loc.calls < 3
          /\ pc = "incrementCount_ret" => s_count = loc.before + 3)
    /\ [][/\ CounterCalled => s_count' = s_count + 1
          /\ ~CounterCalled => s_count' = s_count
          /\ pc = "idle" /\ pc' = "incrementCount_body" =>
               loc'.before = s_count /\ loc'.calls = 0]_vars

C12_Witness ==
    /\ pc = "incrementCount_ret"
    /\ loc.before = 3
    /\ loc.calls = 3
    /\ s_count = 6

\* in string_view_improper_use(), with the statement of this line executed
Executed(line) ==
    pc = "string_view_improper_use_body" /\ loc.line > line

\* the view is bound to a std::string that has been destroyed
Dangling(name) ==
    /\ loc.views[name].kind = "string"
    /\ loc.strings[loc.views[name].of].state = "destroyed"

ValidView(name) == Valid(loc.strings, loc.views[name])

ViewsLiteral(name) == loc.views[name].kind = "literal"

C14_Sv6Invalid ==
    Executed(126) => ~ValidView("sv6") /\ ValidView("sv5")

\* the views bound to the std::string s
ViewsOfS ==
    { name \in ViewNames :
        loc.views[name].kind = "string" /\ loc.views[name].of = "s" }

\* C15 as stated: s = "Hello, a!" invalidates sv5; sv5 = s2 makes sv5 valid
\* again, and with it every view that the modification of s invalidated is
\* valid before the function ends.
C15_Sv5Revalidated ==
    /\ Executed(143) /\ ~Executed(146) => ~ValidView("sv5")
    /\ Executed(146) =>
         /\ ValidView("sv5")
         /\ \A name \in ViewsOfS : ValidView(name)

====
